---- MODULE Spec2Model ----
(***************************************************************************)
(* In-memory archive extraction with size limits (src/src/extractor.rs).   *)
(*                                                                         *)
(* One ArchiveExtractor value and one extraction call on it at a time;     *)
(* a second call, on its own extractor, can be held suspended in `other`   *)
(* and exchanged with the running one (SpecConcurrent).  Format detection  *)
(* by filename and MIME string is src/src/format.rs.                       *)
(* The codec adapters (zip, tar, ar, 7z, gzip, bzip2, xz, lz4, zstd) are   *)
(* external: what they yield for the input bytes is chosen by \E, entry by *)
(* entry, so the archive is whatever the adapter reports it to be.         *)
(* Strings are sequences of one-character strings.  usize is modelled 31   *)
(* bits wide (the widest TLC integers hold); declared sizes are u64 of the *)
(* same width, as on a 64-bit target.                                      *)
(***************************************************************************)
EXTENDS Integers, Sequences, FiniteSets, TLC

VARIABLES
    max_file_size,    \* ArchiveExtractor.max_file_size
    max_total_size,   \* ArchiveExtractor.max_total_size
    source_filename,  \* ArchiveExtractor.source_filename : Option<String>
    format,           \* ArchiveExtractor.format : Option<ArchiveFormat>
    pc,               \* position of the extraction call in progress
    data,             \* the call's input bytes: Option of "empty" / "bytes"
    adapter,          \* Option: the format whose codec adapter was opened on data
    seen,             \* the entries the adapter's cursor has yielded so far
    read_log,         \* indices (into seen) of the entries whose content was read
    files,            \* local Vec<ExtractedFile> of the container loops
    total_size,       \* local running total of the container loops
    size_error,       \* extract_7z: Option<ArchiveError> set by the callback
    result,           \* extract_7z: what for_each_entries returned
    output,           \* extract_tar_xz: Option, the fully decompressed tar stream
    decompressed,     \* extract_single_*: Option, the decoded buffer
    header,           \* extract_single_gz: Option, the header's filename field
    ret,              \* what the call returned
    mime,             \* Option: the MIME string the format was last detected from
    other             \* Option: the frame of a second call, suspended

vars == <<max_file_size, max_total_size, source_filename, format, pc, data,
          adapter, seen, read_log, files, total_size, size_error, result,
          output, decompressed, header, ret, mime, other>>

config == <<max_file_size, max_total_size, source_filename, format>>

locals == <<data, adapter, seen, read_log, files, total_size, size_error,
            result, output, decompressed, header>>

\* What no step of the extractor or of the call in progress touches.
outside == <<mime, other>>

---------------------------------------------------------------------------
(* Bounds of the model *)

\* Largest number of entries an adapter yields in one call.
MaxEntries == 2

\* Longest stem in front of the tail of a source filename.
MaxStem == 1

---------------------------------------------------------------------------
(* Option<T> *)

None == <<>>
Some(x) == <<x>>
IsSome(o) == o # <<>>
Unwrap(o) == o[1]

---------------------------------------------------------------------------
(* usize *)

DefaultMaxFileSize == 104857600
DefaultMaxTotalSize == 1073741824

\* usize::MAX of the modelled word (2^31 - 1).
UsizeMax == 1073741824 + 1073741823

\* `x as usize` for a u64 x: the low bits that fit the word.
AsUsize(x) == IF x <= UsizeMax THEN x ELSE x - UsizeMax - 1

\* `a += b` on usize.  When the sum does not fit the word, a build with
\* overflow checks panics and a build without them wraps.
UsizeAdd(a, b) ==
    IF a <= UsizeMax - b
    THEN {[panic |-> FALSE, value |-> a + b]}
    ELSE {[panic |-> TRUE, value |-> 0],
          [panic |-> FALSE, value |-> a - (UsizeMax - b) - 1]}

---------------------------------------------------------------------------
(* ArchiveFormat *)

ContainerFormats == {"Zip", "Tar", "Ar", "Deb", "TarGz", "TarBz2", "TarXz",
                     "TarZst", "TarLz4", "SevenZ"}
SingleFormats == {"Gz", "Bz2", "Xz", "Lz4", "Zst"}
ArchiveFormat == ContainerFormats \cup SingleFormats

---------------------------------------------------------------------------
(* Strings *)

Str_data == <<"d", "a", "t", "a">>

UpperAlpha ==
    <<"A", "B", "C", "D", "E", "F", "G", "H", "I", "J", "K", "L", "M",
    "N", "O", "P", "Q", "R", "S", "T", "U", "V", "W", "X", "Y", "Z">>

LowerAlpha ==
    <<"a", "b", "c", "d", "e", "f", "g", "h", "i", "j", "k", "l", "m",
    "n", "o", "p", "q", "r", "s", "t", "u", "v", "w", "x", "y", "z">>

\* u8::to_ascii_lowercase
AsciiLowerChar(c) ==
    IF \E i \in 1..26 : UpperAlpha[i] = c
    THEN LowerAlpha[CHOOSE i \in 1..26 : UpperAlpha[i] = c]
    ELSE c

\* str::to_ascii_lowercase
to_ascii_lowercase(s) == [i \in 1..Len(s) |-> AsciiLowerChar(s[i])]

\* char::to_lowercase on the characters the model uses (ASCII and the
\* marker of a non-UTF-8 byte): one character for one character.
LowerChar(c) == AsciiLowerChar(c)

to_lowercase(s) == [i \in 1..Len(s) |-> LowerChar(s[i])]

ends_with(s, suffix) ==
    /\ Len(suffix) <= Len(s)
    /\ SubSeq(s, Len(s) - Len(suffix) + 1, Len(s)) = suffix

\* String::from_utf8_lossy / to_string_lossy: every byte that is not valid
\* UTF-8 (written "\xFF") becomes the replacement character.
LossyChar(c) == IF c = "\\xFF" THEN "U+FFFD" ELSE c

to_string_lossy(bytes) == [i \in 1..Len(bytes) |-> LossyChar(bytes[i])]

---------------------------------------------------------------------------
(* ArchiveError and Result *)

FileTooLarge(size) ==
    [type |-> "FileTooLarge", size |-> size, limit |-> max_file_size]

TotalSizeTooLarge(size) ==
    [type |-> "TotalSizeTooLarge", size |-> size, limit |-> max_total_size]

PlainError(type) == [type |-> type, size |-> 0, limit |-> 0]

UnknownFormat == PlainError("UnknownFormat")
InvalidArchive == PlainError("InvalidArchive")
\* `?` on a std::io::Error and on a zip::result::ZipError
IoError == PlainError("Io")
ZipError == PlainError("Zip")

NoReturn == [kind |-> "none", files |-> <<>>, err |-> PlainError("none")]

\* Err(e) returned while the local Vec still holds the entries accepted so far
ErrKeepsFiles(e) == [kind |-> "Err", files |-> files, err |-> e]

\* `return Err(e)`: the local Vec is dropped, the caller gets the error alone.
Err(e) == [kind |-> "Err", files |-> <<>>, err |-> e]

Ok(fs) == [kind |-> "Ok", files |-> fs, err |-> PlainError("none")]

\* The call unwinds with a panic (arithmetic overflow under overflow checks).
Panicked == [kind |-> "Panic", files |-> <<>>, err |-> PlainError("none")]

---------------------------------------------------------------------------
(* ExtractedFile *)

ExtractedFile(path, bytes, is_directory) ==
    [path |-> path, data |-> bytes, is_directory |-> is_directory]

---------------------------------------------------------------------------
(* What the adapters can yield *)

\* Declared sizes, and the values the setters are given.
SizeVals == {0, 1, 2, UsizeMax}
CapVals == {0, 2, UsizeMax}

Paths == {<<"a">>, <<"b", "\\xFF">>}

\* The bytes an entry's reader yields when its metadata is honest; a declared
\* size of UsizeMax cannot be backed by that many bytes.
Honest(size) ==
    CASE size = 0 -> <<>>
      [] size = 1 -> <<7>>
      [] size = 2 -> <<7, 8>>
      [] OTHER -> <<7, 8, 9>>

\* An entry of a container: stored name, directory flag of its metadata,
\* declared (advertised) size, and the bytes its reader yields.
FileEntries ==
    {[path |-> p, is_directory |-> FALSE, size |-> s, content |-> Honest(s)] :
        p \in Paths, s \in SizeVals}
    \cup {[path |-> <<"a">>, is_directory |-> FALSE, size |-> 0,
           content |-> <<7, 8, 9>>]}

DirEntries ==
    {[path |-> <<"d", "/">>, is_directory |-> TRUE, size |-> 0,
      content |-> <<>>],
     [path |-> <<"d", "/">>, is_directory |-> TRUE, size |-> UsizeMax,
      content |-> <<7>>]}

Entries == FileEntries \cup DirEntries

\* Decoded payloads of a compressed stream.
Payloads == {<<>>, <<7>>, <<7, 8, 9>>}

\* The filename field of a gzip header: absent, valid UTF-8, or not UTF-8.
GzHeaders == {None,
              Some([utf8 |-> TRUE, name |-> <<"h">>]),
              Some([utf8 |-> FALSE, name |-> <<"\\xFF">>])}

FileNames == {<<"r", ".", "G", "Z">>}

DataVals == {"empty", "bytes"}

\* u8::to_ascii_uppercase, to write the inputs in other cases.
AsciiUpperChar(c) ==
    IF \E i \in 1..26 : LowerAlpha[i] = c
    THEN UpperAlpha[CHOOSE i \in 1..26 : LowerAlpha[i] = c]
    ELSE c

Upper(s) == [i \in 1..Len(s) |-> AsciiUpperChar(s[i])]

\* s with its first n characters in upper case.
UpperPrefix(s, n) ==
    [i \in 1..Len(s) |-> IF i <= n THEN AsciiUpperChar(s[i]) ELSE s[i]]

\* The extensions from_filename and derive_single_file_path know, one they
\* do not, and the double extensions.
Words ==
    {<<"z", "i", "p">>,
     <<"t", "a", "r">>,
     <<"a", "r">>,
     <<"d", "e", "b">>,
     <<"t", "g", "z">>,
     <<"t", "b", "z", "2">>,
     <<"t", "x", "z">>,
     <<"g", "z">>,
     <<"b", "z", "2">>,
     <<"x", "z">>,
     <<"l", "z", "4">>,
     <<"z", "s", "t">>,
     <<"7", "z">>,
     <<"t", "x", "t">>,
     <<"t", "a", "r", ".", "g", "z">>,
     <<"t", "a", "r", ".", "b", "z", "2">>,
     <<"t", "a", "r", ".", "x", "z">>,
     <<"t", "a", "r", ".", "z", "s", "t">>,
     <<"t", "a", "r", ".", "l", "z", "4">>}

\* What a source filename ends in: nothing, or a word in lower or upper
\* case, with or without the dot in front.
Tails ==
    {<<>>}
    \cup {w : w \in Words} \cup {Upper(w) : w \in Words}
    \cup {<<".">> \o w : w \in Words} \cup {<<".">> \o Upper(w) : w \in Words}

Stems == UNION {[1..n -> {"r", "R", "."}] : n \in 0..MaxStem}

\* Source filenames: a stem followed by a tail.
SourceNames == {stem \o tail : stem \in Stems, tail \in Tails}

---------------------------------------------------------------------------
(* ArchiveFormat::from_filename and from_mime_str (src/src/format.rs) *)

\* Result<ArchiveFormat, ArchiveError>
OkFormat(f) == [kind |-> "Ok", format |-> f, err |-> PlainError("none")]

ErrFormat(e) == [kind |-> "Err", format |-> "none", err |-> e]

UnsupportedFormat(detail) ==
    [type |-> "UnsupportedFormat", size |-> 0, limit |-> 0, detail |-> detail]

\* lower.rsplit('.').next(): what follows the last dot, the whole string
\* when there is no dot.
RECURSIVE rsplit_next(_)
rsplit_next(str) ==
    IF str = <<>> \/ str[Len(str)] = "."
    THEN <<>>
    ELSE Append(rsplit_next(SubSeq(str, 1, Len(str) - 1)), str[Len(str)])

\* from_filename testing the single extensions before the double ones
from_filename_SinglesFirst(filename) ==
    LET lower == to_lowercase(filename)
        ext == rsplit_next(lower)
    IN
    IF ext = <<"z", "i", "p">> THEN OkFormat("Zip")
    ELSE IF ext = <<"t", "a", "r">> THEN OkFormat("Tar")
    ELSE IF ext = <<"a", "r">> THEN OkFormat("Ar")
    ELSE IF ext = <<"d", "e", "b">> THEN OkFormat("Deb")
    ELSE IF ext = <<"t", "g", "z">> THEN OkFormat("TarGz")
    ELSE IF ext = <<"t", "b", "z", "2">> THEN OkFormat("TarBz2")
    ELSE IF ext = <<"t", "x", "z">> THEN OkFormat("TarXz")
    ELSE IF ext = <<"g", "z">> THEN OkFormat("Gz")
    ELSE IF ext = <<"b", "z", "2">> THEN OkFormat("Bz2")
    ELSE IF ext = <<"x", "z">> THEN OkFormat("Xz")
    ELSE IF ext = <<"l", "z", "4">> THEN OkFormat("Lz4")
    ELSE IF ext = <<"z", "s", "t">> THEN OkFormat("Zst")
    ELSE IF ext = <<"7", "z">> THEN OkFormat("SevenZ")
    ELSE
    IF ends_with(lower, <<".", "t", "a", "r", ".", "g", "z">>) THEN OkFormat("TarGz")
    ELSE IF ends_with(lower, <<".", "t", "a", "r", ".", "b", "z", "2">>) THEN OkFormat("TarBz2")
    ELSE IF ends_with(lower, <<".", "t", "a", "r", ".", "x", "z">>) THEN OkFormat("TarXz")
    ELSE IF ends_with(lower, <<".", "t", "a", "r", ".", "z", "s", "t">>) THEN OkFormat("TarZst")
    ELSE IF ends_with(lower, <<".", "t", "a", "r", ".", "l", "z", "4">>) THEN OkFormat("TarLz4")
    ELSE ErrFormat(UnknownFormat)

\* ArchiveFormat::from_filename
from_filename(filename) ==
    LET lower == to_lowercase(filename)
        ext == rsplit_next(lower)
    IN
    IF ends_with(lower, <<".", "t", "a", "r", ".", "g", "z">>) THEN OkFormat("TarGz")
    ELSE IF ends_with(lower, <<".", "t", "a", "r", ".", "b", "z", "2">>) THEN OkFormat("TarBz2")
    ELSE IF ends_with(lower, <<".", "t", "a", "r", ".", "x", "z">>) THEN OkFormat("TarXz")
    ELSE IF ends_with(lower, <<".", "t", "a", "r", ".", "z", "s", "t">>) THEN OkFormat("TarZst")
    ELSE IF ends_with(lower, <<".", "t", "a", "r", ".", "l", "z", "4">>) THEN OkFormat("TarLz4")
    ELSE
    IF ext = <<"z", "i", "p">> THEN OkFormat("Zip")
    ELSE IF ext = <<"t", "a", "r">> THEN OkFormat("Tar")
    ELSE IF ext = <<"a", "r">> THEN OkFormat("Ar")
    ELSE IF ext = <<"d", "e", "b">> THEN OkFormat("Deb")
    ELSE IF ext = <<"t", "g", "z">> THEN OkFormat("TarGz")
    ELSE IF ext = <<"t", "b", "z", "2">> THEN OkFormat("TarBz2")
    ELSE IF ext = <<"t", "x", "z">> THEN OkFormat("TarXz")
    ELSE IF ext = <<"g", "z">> THEN OkFormat("Gz")
    ELSE IF ext = <<"b", "z", "2">> THEN OkFormat("Bz2")
    ELSE IF ext = <<"x", "z">> THEN OkFormat("Xz")
    ELSE IF ext = <<"l", "z", "4">> THEN OkFormat("Lz4")
    ELSE IF ext = <<"z", "s", "t">> THEN OkFormat("Zst")
    ELSE IF ext = <<"7", "z">> THEN OkFormat("SevenZ")
    ELSE ErrFormat(UnknownFormat)

App == <<"a", "p", "p", "l", "i", "c", "a", "t", "i", "o", "n", "/">>

\* The arms of the match in from_mime_str: string and tag.
MimeTable ==
    {<<App \o <<"z", "i", "p">>, "Zip">>,
     <<App \o <<"x", "-", "t", "a", "r">>, "Tar">>,
     <<App \o <<"x", "-", "a", "r">>, "Ar">>,
     <<App \o <<"v", "n", "d", ".", "d", "e", "b", "i", "a", "n", ".", "b",
            "i", "n", "a", "r", "y", "-", "p", "a", "c", "k", "a", "g",
            "e">>, "Deb">>,
     <<App \o <<"g", "z", "i", "p">>, "Gz">>,
     <<App \o <<"x", "-", "g", "z", "i", "p">>, "Gz">>,
     <<App \o <<"x", "-", "b", "z", "i", "p", "2">>, "Bz2">>,
     <<App \o <<"x", "-", "b", "z", "i", "p">>, "Bz2">>,
     <<App \o <<"x", "-", "x", "z">>, "Xz">>,
     <<App \o <<"x", "-", "l", "z", "4">>, "Lz4">>,
     <<App \o <<"z", "s", "t", "d">>, "Zst">>,
     <<App \o <<"x", "-", "z", "s", "t", "d">>, "Zst">>,
     <<App \o <<"x", "-", "7", "z", "-", "c", "o", "m", "p", "r", "e", "s",
            "s", "e", "d">>, "SevenZ">>}

\* from_mime_str matching the string as passed
from_mime_str_CaseSensitive(m) ==
    IF \E row \in MimeTable : row[1] = m
    THEN OkFormat((CHOOSE row \in MimeTable : row[1] = m)[2])
    ELSE ErrFormat(UnsupportedFormat(m))

\* ArchiveFormat::from_mime_str
from_mime_str(m) ==
    LET lower == to_ascii_lowercase(m) IN
    IF \E row \in MimeTable : row[1] = lower
    THEN OkFormat((CHOOSE row \in MimeTable : row[1] = lower)[2])
    ELSE ErrFormat(UnsupportedFormat(lower))

\* MIME strings passed in: those of the table and others (another type,
\* tar flavours, a proper prefix, one with a trailing space, the empty
\* string), as written, capitalised and in upper case.
MimeBases ==
    {row[1] : row \in MimeTable}
    \cup
    {<<>>,
     <<"t", "e", "x", "t", "/", "p", "l", "a", "i", "n">>,
     <<"a", "p", "p", "l", "i", "c", "a", "t", "i", "o", "n", "/", "x",
     "-", "g", "t", "a", "r">>,
     <<"a", "p", "p", "l", "i", "c", "a", "t", "i", "o", "n", "/", "x",
     "-", "c", "o", "m", "p", "r", "e", "s", "s", "e", "d", "-", "t", "a",
     "r">>,
     <<"a", "p", "p", "l", "i", "c", "a", "t", "i", "o", "n", "/", "z",
     "i">>,
     <<"a", "p", "p", "l", "i", "c", "a", "t", "i", "o", "n", "/", "g",
     "z", "i", "p", " ">>}

Mimes == UNION {{b, UpperPrefix(b, 1), Upper(b)} : b \in MimeBases}

---------------------------------------------------------------------------
(* The size checks *)

ExceedsFileLimitOrEqual(size) == size >= max_file_size

\* `size > self.max_file_size`
ExceedsFileLimit(size) == size > max_file_size

ExceedsTotalLimitOrEqual(total) == total >= max_total_size

\* `total_size > self.max_total_size`
ExceedsTotalLimit(total) == total > max_total_size

---------------------------------------------------------------------------
(* ArchiveExtractor: construction and the builder's setters *)

NoLocals ==
    /\ data = None
    /\ adapter = None
    /\ seen = <<>>
    /\ read_log = {}
    /\ files = <<>>
    /\ total_size = 0
    /\ size_error = None
    /\ result = "pending"
    /\ output = None
    /\ decompressed = None
    /\ header = None

\* ArchiveExtractor::new() / Default::default()
Init ==
    /\ max_file_size = DefaultMaxFileSize
    /\ max_total_size = DefaultMaxTotalSize
    /\ source_filename = None
    /\ format = None
    /\ pc = "idle"
    /\ NoLocals
    /\ ret = NoReturn
    /\ mime = None
    /\ other = None

with_max_file_size(size) ==
    /\ pc = "idle"
    /\ UNCHANGED outside
    /\ max_file_size' = size
    /\ UNCHANGED <<max_total_size, source_filename, format, pc, locals, ret>>

\* with_max_total_size writing the per-file cap
with_max_total_size_SetsFileSize(size) ==
    /\ pc = "idle"
    /\ UNCHANGED outside
    /\ max_file_size' = size
    /\ UNCHANGED <<max_total_size, source_filename, format, pc, locals, ret>>

with_max_total_size(size) ==
    /\ pc = "idle"
    /\ UNCHANGED outside
    /\ max_total_size' = size
    /\ UNCHANGED <<max_file_size, source_filename, format, pc, locals, ret>>

with_source_filename(filename) ==
    /\ pc = "idle"
    /\ UNCHANGED outside
    /\ source_filename' = Some(filename)
    /\ UNCHANGED <<max_file_size, max_total_size, format, pc, locals, ret>>

with_format(f) ==
    /\ pc = "idle"
    /\ UNCHANGED outside
    /\ format' = Some(f)
    /\ UNCHANGED <<max_file_size, max_total_size, source_filename, pc, locals,
                   ret>>

\* with_format_from_mime: on an error the builder, taken by value, is gone.
with_format_from_mime(m) ==
    /\ pc = "idle"
    /\ mime' = Some(m)
    /\ LET parsed == from_mime_str(m) IN
       IF parsed.kind = "Ok"
       THEN /\ format' = Some(parsed.format)
            /\ UNCHANGED <<pc, ret>>
       ELSE /\ pc' = "dropped"
            /\ ret' = Err(parsed.err)
            /\ UNCHANGED format
    /\ UNCHANGED <<max_file_size, max_total_size, source_filename, locals,
                   other>>

\* with_format_from_filename
with_format_from_filename ==
    /\ pc = "idle"
    /\ mime' = None
    /\ IF source_filename = None
       THEN /\ pc' = "dropped"
            /\ ret' = Err(UnknownFormat)
            /\ UNCHANGED format
       ELSE LET detected == from_filename(Unwrap(source_filename)) IN
            IF detected.kind = "Ok"
            THEN /\ format' = Some(detected.format)
                 /\ UNCHANGED <<pc, ret>>
            ELSE /\ pc' = "dropped"
                 /\ ret' = Err(detected.err)
                 /\ UNCHANGED format
    /\ UNCHANGED <<max_file_size, max_total_size, source_filename, locals,
                   other>>

---------------------------------------------------------------------------
(* Path derivation for the single-stream formats *)

Extension(f) ==
    CASE f = "Gz" -> Some(<<".", "g", "z">>)
      [] f = "Bz2" -> Some(<<".", "b", "z", "2">>)
      [] f = "Xz" -> Some(<<".", "x", "z">>)
      [] f = "Lz4" -> Some(<<".", "l", "z", "4">>)
      [] f = "Zst" -> Some(<<".", "z", "s", "t">>)
      [] OTHER -> None

\* derive_single_file_path without the test that something is left
derive_single_file_path_AllowsEmpty(f) ==
    IF IsSome(source_filename) /\ IsSome(Extension(f))
    THEN LET filename == Unwrap(source_filename)
             ext == Unwrap(Extension(f))
             lower == to_lowercase(filename)
         IN  IF ends_with(lower, ext)
             THEN SubSeq(filename, 1, Len(filename) - Len(ext))
             ELSE Str_data
    ELSE Str_data

derive_single_file_path(f) ==
    IF IsSome(source_filename) /\ IsSome(Extension(f))
    THEN LET filename == Unwrap(source_filename)
             ext == Unwrap(Extension(f))
             lower == to_lowercase(filename)
             stripped == SubSeq(filename, 1, Len(filename) - Len(ext))
         IN  IF ends_with(lower, ext) /\ stripped # <<>>
             THEN stripped
             ELSE Str_data
    ELSE Str_data

---------------------------------------------------------------------------
(* The extraction call *)

\* The call returns r (Ok, Err or a panic).
Finish(r) ==
    /\ pc' = "done"
    /\ ret' = r

\* The adapter's cursor can yield one more entry.
CanYield ==
    /\ Len(seen) < MaxEntries
    /\ data = Some("bytes")
    /\ IsSome(output) => Unwrap(output) # <<>>

\* extract_with_format: the dispatch on the format and the opening of the
\* adapter on the data, up to the first loop iteration or the decoding.
extract_with_format(d, f) ==
    /\ pc = "idle"
    /\ UNCHANGED outside
    /\ data' = Some(d)
    /\ adapter' = Some(f)
    /\ UNCHANGED <<config, seen, read_log, files, total_size, size_error,
                   result, decompressed, header>>
    /\ \/ /\ f = "Zip"
          /\ \/ Finish(Err(ZipError))
             \/ pc' = "zip" /\ UNCHANGED ret
          /\ UNCHANGED output
       \/ /\ f \in {"Tar", "TarGz", "TarBz2"}
          /\ \/ Finish(Err(IoError))
             \/ pc' = "tar" /\ UNCHANGED ret
          /\ UNCHANGED output
       \/ /\ f \in {"TarZst", "TarLz4"}
          /\ \/ Finish(Err(IoError))
             \/ pc' = "tar" /\ UNCHANGED ret
          /\ UNCHANGED output
       \/ /\ f = "TarXz"
          /\ \/ Finish(Err(InvalidArchive)) /\ UNCHANGED output
             \/ \E out \in Payloads :
                  /\ d = "empty" => out = <<>>
                  /\ output' = Some(out)
                  /\ \/ Finish(Err(IoError))
                     \/ pc' = "tar" /\ UNCHANGED ret
       \/ /\ f \in {"Ar", "Deb"}
          /\ pc' = "ar"
          /\ UNCHANGED <<ret, output>>
       \/ /\ f = "SevenZ"
          /\ \/ Finish(Err(InvalidArchive))
             \/ pc' = "7z" /\ UNCHANGED ret
          /\ UNCHANGED output
       \/ /\ f \in {"Gz", "Bz2", "Xz"}
          /\ pc' = "single"
          /\ UNCHANGED <<ret, output>>
       \/ /\ f \in {"Lz4", "Zst"}
          /\ \/ Finish(Err(IoError))
             \/ pc' = "single" /\ UNCHANGED ret
          /\ UNCHANGED output

\* extract falling back to zip when no format is configured
extract_DefaultsToZip(d) ==
    /\ pc = "idle"
    /\ UNCHANGED outside
    /\ extract_with_format(d, IF format = None THEN "Zip" ELSE Unwrap(format))

\* extract: the configured format, or UnknownFormat when there is none.
extract(d) ==
    /\ pc = "idle"
    /\ UNCHANGED outside
    /\ IF format = None
       THEN /\ data' = Some(d)
            /\ Finish(Err(UnknownFormat))
            /\ UNCHANGED <<config, adapter, seen, read_log, files, total_size,
                           size_error, result, output, decompressed, header>>
       ELSE extract_with_format(d, Unwrap(format))

---------------------------------------------------------------------------
(* extract_zip *)

\* The zip loop's non-directory branch with the entry read before the checks
extract_zip_file_ReadsFirst(e) ==
    LET size == AsUsize(e.size) IN
    /\ read_log' = read_log \cup {Len(seen) + 1}
    /\ IF ExceedsFileLimit(size)
       THEN /\ Finish(Err(FileTooLarge(size)))
            /\ UNCHANGED <<files, total_size>>
       ELSE \E sum \in UsizeAdd(total_size, size) :
              IF sum.panic
              THEN /\ Finish(Panicked)
                   /\ UNCHANGED <<files, total_size>>
              ELSE /\ total_size' = sum.value
                   /\ IF ExceedsTotalLimit(sum.value)
                      THEN /\ Finish(Err(TotalSizeTooLarge(sum.value)))
                           /\ UNCHANGED files
                      ELSE /\ files' = Append(files,
                                    ExtractedFile(e.path, e.content, FALSE))
                           /\ UNCHANGED <<pc, ret>>

\* The zip loop's non-directory branch dropping an entry whose path is
\* already in the list
extract_zip_file_SkipsDuplicate(e) ==
    LET size == AsUsize(e.size) IN
    IF ExceedsFileLimit(size)
    THEN /\ Finish(Err(FileTooLarge(size)))
         /\ UNCHANGED <<read_log, files, total_size>>
    ELSE \E sum \in UsizeAdd(total_size, size) :
           IF sum.panic
           THEN /\ Finish(Panicked)
                /\ UNCHANGED <<read_log, files, total_size>>
           ELSE /\ total_size' = sum.value
                /\ IF ExceedsTotalLimit(sum.value)
                   THEN /\ Finish(Err(TotalSizeTooLarge(sum.value)))
                        /\ UNCHANGED <<read_log, files>>
                   ELSE /\ read_log' = read_log \cup {Len(seen) + 1}
                        /\ files' =
                             IF \E i \in 1..Len(files) : files[i].path = e.path
                             THEN files
                             ELSE Append(files,
                                     ExtractedFile(e.path, e.content, FALSE))
                        /\ UNCHANGED <<pc, ret>>

\* The zip loop's non-directory branch adding to the total and checking it
\* before the per-file check
extract_zip_file_TotalFirst(e) ==
    LET size == AsUsize(e.size) IN
    \E sum \in UsizeAdd(total_size, size) :
       IF sum.panic
       THEN /\ Finish(Panicked)
            /\ UNCHANGED <<read_log, files, total_size>>
       ELSE /\ total_size' = sum.value
            /\ IF ExceedsTotalLimit(sum.value)
               THEN /\ Finish(Err(TotalSizeTooLarge(sum.value)))
                    /\ UNCHANGED <<read_log, files>>
               ELSE IF ExceedsFileLimit(size)
                    THEN /\ Finish(Err(FileTooLarge(size)))
                         /\ UNCHANGED <<read_log, files>>
                    ELSE /\ read_log' = read_log \cup {Len(seen) + 1}
                         /\ \/ /\ files' = Append(files,
                                      ExtractedFile(e.path, e.content, FALSE))
                               /\ UNCHANGED <<pc, ret>>
                            \/ /\ Finish(Err(IoError))
                               /\ UNCHANGED files

\* The zip loop's non-directory branch holding the bytes read against the
\* per-file cap as well
extract_zip_file_ChecksContent(e) ==
    LET size == AsUsize(e.size) IN
    IF ExceedsFileLimit(size)
    THEN /\ Finish(Err(FileTooLarge(size)))
         /\ UNCHANGED <<read_log, files, total_size>>
    ELSE \E sum \in UsizeAdd(total_size, size) :
           IF sum.panic
           THEN /\ Finish(Panicked)
                /\ UNCHANGED <<read_log, files, total_size>>
           ELSE /\ total_size' = sum.value
                /\ IF ExceedsTotalLimit(sum.value)
                   THEN /\ Finish(Err(TotalSizeTooLarge(sum.value)))
                        /\ UNCHANGED <<read_log, files>>
                   ELSE /\ read_log' = read_log \cup {Len(seen) + 1}
                        /\ IF ExceedsFileLimit(Len(e.content))
                           THEN /\ Finish(Err(FileTooLarge(Len(e.content))))
                                /\ UNCHANGED files
                           ELSE \/ /\ files' = Append(files,
                                        ExtractedFile(e.path, e.content,
                                                      FALSE))
                                   /\ UNCHANGED <<pc, ret>>
                                \/ /\ Finish(Err(IoError))
                                   /\ UNCHANGED files

\* The non-directory branch of the zip loop for entry e.
extract_zip_file(e) ==
    LET size == AsUsize(e.size) IN
    IF ExceedsFileLimit(size)
    THEN /\ Finish(Err(FileTooLarge(size)))
         /\ UNCHANGED <<read_log, files, total_size>>
    ELSE \E sum \in UsizeAdd(total_size, size) :
           IF sum.panic
           THEN /\ Finish(Panicked)
                /\ UNCHANGED <<read_log, files, total_size>>
           ELSE /\ total_size' = sum.value
                /\ IF ExceedsTotalLimit(sum.value)
                   THEN /\ Finish(Err(TotalSizeTooLarge(sum.value)))
                        /\ UNCHANGED <<read_log, files>>
                   ELSE /\ read_log' = read_log \cup {Len(seen) + 1}
                        /\ \/ /\ files' = Append(files,
                                     ExtractedFile(e.path, e.content, FALSE))
                              /\ UNCHANGED <<pc, ret>>
                           \/ /\ Finish(Err(IoError))
                              /\ UNCHANGED files

\* The zip loop's directory branch keeping what the entry's reader yields
extract_zip_dir_KeepsContent(e) ==
    /\ files' = Append(files, ExtractedFile(e.path, e.content, TRUE))
    /\ UNCHANGED <<pc, ret, read_log, total_size>>

\* The zip loop's directory branch applying the per-file cap to the
\* directory's declared size
extract_zip_dir_Checked(e) ==
    LET size == AsUsize(e.size) IN
    IF ExceedsFileLimit(size)
    THEN /\ Finish(Err(FileTooLarge(size)))
         /\ UNCHANGED <<read_log, files, total_size>>
    ELSE /\ files' = Append(files, ExtractedFile(e.path, <<>>, TRUE))
         /\ UNCHANGED <<pc, ret, read_log, total_size>>

\* The directory branch of the zip loop for entry e.
extract_zip_dir(e) ==
    /\ files' = Append(files, ExtractedFile(e.path, <<>>, TRUE))
    /\ UNCHANGED <<pc, ret, read_log, total_size>>

\* One iteration of the zip loop that starts the walk over when by_index
\* fails
extract_zip_entry_RestartsOnError ==
    /\ pc = "zip"
    /\ UNCHANGED outside
    /\ UNCHANGED <<config, data, adapter, size_error, result, output,
                   decompressed, header>>
    /\ \/ /\ seen # <<>>
          /\ seen' = <<>>
          /\ read_log' = {}
          /\ files' = <<>>
          /\ total_size' = 0
          /\ UNCHANGED <<pc, ret>>
       \/ \E e \in Entries :
            /\ CanYield
            /\ seen' = Append(seen, e)
            /\ IF ~e.is_directory
               THEN extract_zip_file(e)
               ELSE extract_zip_dir(e)

\* One iteration of `for i in 0..archive.len()`.
extract_zip_entry ==
    /\ pc = "zip"
    /\ UNCHANGED outside
    /\ UNCHANGED <<config, data, adapter, size_error, result, output,
                   decompressed, header>>
    /\ \/ /\ Finish(Err(ZipError))
          /\ UNCHANGED <<seen, read_log, files, total_size>>
       \/ \E e \in Entries :
            /\ CanYield
            /\ seen' = Append(seen, e)
            /\ IF ~e.is_directory
               THEN extract_zip_file(e)
               ELSE extract_zip_dir(e)

\* The loop is over: Ok(files).
extract_zip_end ==
    /\ pc = "zip"
    /\ UNCHANGED outside
    /\ Finish(Ok(files))
    /\ UNCHANGED <<config, locals>>

---------------------------------------------------------------------------
(* process_tar_entries *)

\* The tar loop's non-directory branch testing the total before the
\* entry's size is added to it
process_tar_file_ChecksOldTotal(e, path) ==
    LET size == AsUsize(e.size) IN
    IF ExceedsFileLimit(size)
    THEN /\ Finish(Err(FileTooLarge(size)))
         /\ UNCHANGED <<read_log, files, total_size>>
    ELSE IF ExceedsTotalLimit(total_size)
         THEN /\ Finish(Err(TotalSizeTooLarge(total_size)))
              /\ UNCHANGED <<read_log, files, total_size>>
         ELSE \E sum \in UsizeAdd(total_size, size) :
                IF sum.panic
                THEN /\ Finish(Panicked)
                     /\ UNCHANGED <<read_log, files, total_size>>
                ELSE /\ total_size' = sum.value
                     /\ read_log' = read_log \cup {Len(seen) + 1}
                     /\ \/ /\ files' = Append(files,
                                  ExtractedFile(path, e.content, FALSE))
                           /\ UNCHANGED <<pc, ret>>
                        \/ /\ Finish(Err(IoError))
                           /\ UNCHANGED files

process_tar_file(e, path) ==
    LET size == AsUsize(e.size) IN
    IF ExceedsFileLimit(size)
    THEN /\ Finish(Err(FileTooLarge(size)))
         /\ UNCHANGED <<read_log, files, total_size>>
    ELSE \E sum \in UsizeAdd(total_size, size) :
           IF sum.panic
           THEN /\ Finish(Panicked)
                /\ UNCHANGED <<read_log, files, total_size>>
           ELSE /\ total_size' = sum.value
                /\ IF ExceedsTotalLimit(sum.value)
                   THEN /\ Finish(Err(TotalSizeTooLarge(sum.value)))
                        /\ UNCHANGED <<read_log, files>>
                   ELSE /\ read_log' = read_log \cup {Len(seen) + 1}
                        /\ \/ /\ files' = Append(files,
                                     ExtractedFile(path, e.content, FALSE))
                              /\ UNCHANGED <<pc, ret>>
                           \/ /\ Finish(Err(IoError))
                              /\ UNCHANGED files

process_tar_dir(e, path) ==
    /\ files' = Append(files, ExtractedFile(path, <<>>, TRUE))
    /\ UNCHANGED <<pc, ret, read_log, total_size>>

\* One iteration of `for entry_result in archive.entries()?`: the cursor
\* fails (`entry_result?`, `entry.path()?`) or yields entry e.
process_tar_entry ==
    /\ pc = "tar"
    /\ UNCHANGED outside
    /\ UNCHANGED <<config, data, adapter, size_error, result, output,
                   decompressed, header>>
    /\ \/ /\ Finish(Err(IoError))
          /\ UNCHANGED <<seen, read_log, files, total_size>>
       \/ \E e \in Entries :
            /\ CanYield
            /\ seen' = Append(seen, e)
            /\ LET path == to_string_lossy(e.path) IN
               IF ~e.is_directory
               THEN process_tar_file(e, path)
               ELSE process_tar_dir(e, path)

process_tar_end ==
    /\ pc = "tar"
    /\ UNCHANGED outside
    /\ Finish(Ok(files))
    /\ UNCHANGED <<config, locals>>

---------------------------------------------------------------------------
(* process_ar_entries *)

\* One iteration of `while let Some(entry_result) = archive.next_entry()`.
\* The entry's directory flag is never looked at.
process_ar_body(e, path) ==
    LET size == AsUsize(e.size) IN
    IF ExceedsFileLimit(size)
    THEN /\ Finish(Err(FileTooLarge(size)))
         /\ UNCHANGED <<read_log, files, total_size>>
    ELSE \E sum \in UsizeAdd(total_size, size) :
           IF sum.panic
           THEN /\ Finish(Panicked)
                /\ UNCHANGED <<read_log, files, total_size>>
           ELSE /\ total_size' = sum.value
                /\ IF ExceedsTotalLimit(sum.value)
                   THEN /\ Finish(Err(TotalSizeTooLarge(sum.value)))
                        /\ UNCHANGED <<read_log, files>>
                   ELSE /\ read_log' = read_log \cup {Len(seen) + 1}
                        /\ \/ /\ files' = Append(files,
                                     ExtractedFile(path, e.content, FALSE))
                              /\ UNCHANGED <<pc, ret>>
                           \/ /\ Finish(Err(IoError))
                              /\ UNCHANGED files

\* The ar loop skipping the checks for entries flagged as directories, as
\* the tar loop does
process_ar_entry_SkipsDirectories ==
    /\ pc = "ar"
    /\ UNCHANGED outside
    /\ UNCHANGED <<config, data, adapter, size_error, result, output,
                   decompressed, header>>
    /\ \/ /\ Finish(Err(IoError))
          /\ UNCHANGED <<seen, read_log, files, total_size>>
       \/ \E e \in Entries :
            /\ CanYield
            /\ seen' = Append(seen, e)
            /\ IF e.is_directory
               THEN process_tar_dir(e, to_string_lossy(e.path))
               ELSE process_ar_body(e, to_string_lossy(e.path))

process_ar_entry ==
    /\ pc = "ar"
    /\ UNCHANGED outside
    /\ UNCHANGED <<config, data, adapter, size_error, result, output,
                   decompressed, header>>
    /\ \/ /\ Finish(Err(IoError))
          /\ UNCHANGED <<seen, read_log, files, total_size>>
       \/ \E e \in Entries :
            /\ CanYield
            /\ seen' = Append(seen, e)
            /\ process_ar_body(e, to_string_lossy(e.path))

process_ar_end ==
    /\ pc = "ar"
    /\ UNCHANGED outside
    /\ Finish(Ok(files))
    /\ UNCHANGED <<config, locals>>

---------------------------------------------------------------------------
(* extract_7z *)

\* for_each_entries stops and hands its own result to the code after it.
LoopExits(r) ==
    /\ result' = r
    /\ pc' = "7z_after"
    /\ UNCHANGED ret

\* The callback has returned the stop signal: for_each_entries visits no
\* further entry and returns; what it returns is its own affair.
LoopStops ==
    \E r \in {"Ok", "Err"} : LoopExits(r)

\* The callback's non-directory branch for entry e.
extract_7z_file(e) ==
    LET size == AsUsize(e.size) IN
    IF ExceedsFileLimit(size)
    THEN /\ size_error' = Some(FileTooLarge(size))
         /\ LoopStops
         /\ UNCHANGED <<read_log, files, total_size>>
    ELSE \E sum \in UsizeAdd(total_size, size) :
           IF sum.panic
           THEN /\ Finish(Panicked)
                /\ UNCHANGED <<read_log, files, total_size, size_error,
                               result>>
           ELSE /\ total_size' = sum.value
                /\ IF ExceedsTotalLimit(sum.value)
                   THEN /\ size_error' = Some(TotalSizeTooLarge(sum.value))
                        /\ LoopStops
                        /\ UNCHANGED <<read_log, files>>
                   ELSE /\ read_log' = read_log \cup {Len(seen) + 1}
                        /\ UNCHANGED size_error
                        /\ \/ /\ files' = Append(files,
                                     ExtractedFile(e.path, e.content, FALSE))
                              /\ UNCHANGED <<pc, ret, result>>
                           \/ /\ LoopExits("Err")
                              /\ UNCHANGED files

\* The callback's directory branch for entry e.
extract_7z_dir(e) ==
    /\ files' = Append(files, ExtractedFile(e.path, <<>>, TRUE))
    /\ UNCHANGED <<pc, ret, read_log, total_size, size_error, result>>

\* for_each_entries visits one more entry and runs the callback on it, or
\* fails on its own.
extract_7z_entry ==
    /\ pc = "7z"
    /\ UNCHANGED outside
    /\ UNCHANGED <<config, data, adapter, output, decompressed, header>>
    /\ \/ /\ LoopExits("Err")
          /\ UNCHANGED <<seen, read_log, files, total_size, size_error>>
       \/ \E e \in Entries :
            /\ CanYield
            /\ seen' = Append(seen, e)
            /\ IF e.is_directory
               THEN extract_7z_dir(e)
               ELSE extract_7z_file(e)

\* for_each_entries has visited every entry.
extract_7z_end ==
    /\ pc = "7z"
    /\ UNCHANGED outside
    /\ LoopExits("Ok")
    /\ UNCHANGED <<config, data, adapter, seen, read_log, files, total_size,
                   size_error, output, decompressed, header>>

\* The code after for_each_entries looking at the iteration's result first
extract_7z_after_ResultFirst ==
    /\ pc = "7z_after"
    /\ UNCHANGED outside
    /\ IF result = "Err"
       THEN Finish(Err(InvalidArchive))
       ELSE IF IsSome(size_error)
            THEN Finish(Err(Unwrap(size_error)))
            ELSE Finish(Ok(files))
    /\ UNCHANGED <<config, locals>>

\* The code after for_each_entries.
extract_7z_after ==
    /\ pc = "7z_after"
    /\ UNCHANGED outside
    /\ IF IsSome(size_error)
       THEN Finish(Err(Unwrap(size_error)))
       ELSE IF result = "Err"
            THEN Finish(Err(InvalidArchive))
            ELSE Finish(Ok(files))
    /\ UNCHANGED <<config, locals>>

---------------------------------------------------------------------------
(* extract_single_gz / bz2 / xz / lz4 / zst *)

\* The decoder is drained into `decompressed` (read_to_end / xz_decompress).
extract_single_decode ==
    /\ pc = "single"
    /\ UNCHANGED outside
    /\ UNCHANGED <<config, data, adapter, seen, read_log, files, total_size,
                   size_error, result, output>>
    /\ \/ /\ Finish(Err(IF adapter = Some("Xz") THEN InvalidArchive
                                                 ELSE IoError))
          /\ UNCHANGED <<decompressed, header>>
       \/ \E payload \in Payloads, h \in GzHeaders :
            /\ data = Some("empty") => payload = <<>> /\ h = None
            /\ adapter # Some("Gz") => h = None
            /\ decompressed' = Some(payload)
            /\ header' = h
            /\ pc' = "single_check"
            /\ UNCHANGED ret

\* extract_single_gz preferring the name derived from the source filename
gz_path_SourceFirst ==
    IF derive_single_file_path("Gz") # Str_data
    THEN derive_single_file_path("Gz")
    ELSE IF IsSome(header) /\ Unwrap(header).utf8
         THEN Unwrap(header).name
         ELSE Str_data

\* extract_single_gz: header filename if valid UTF-8, else the fallback.
gz_path ==
    IF IsSome(header) /\ Unwrap(header).utf8
    THEN Unwrap(header).name
    ELSE derive_single_file_path("Gz")

single_path(f) == IF f = "Gz" THEN gz_path ELSE derive_single_file_path(f)

\* The single-stream check also holding the decoded length against the
\* cumulative cap
extract_single_check_ChecksTotal ==
    /\ pc = "single_check"
    /\ UNCHANGED outside
    /\ LET buf == Unwrap(decompressed) IN
       IF ExceedsFileLimit(Len(buf))
       THEN Finish(Err(FileTooLarge(Len(buf))))
       ELSE IF ExceedsTotalLimit(Len(buf))
            THEN Finish(Err(TotalSizeTooLarge(Len(buf))))
            ELSE Finish(Ok(<<ExtractedFile(single_path(Unwrap(adapter)), buf,
                                           FALSE)>>))
    /\ UNCHANGED <<config, locals>>

\* The size check on the decoded length, then the single entry.
extract_single_check ==
    /\ pc = "single_check"
    /\ UNCHANGED outside
    /\ LET buf == Unwrap(decompressed) IN
       IF ExceedsFileLimit(Len(buf))
       THEN Finish(Err(FileTooLarge(Len(buf))))
       ELSE Finish(Ok(<<ExtractedFile(single_path(Unwrap(adapter)), buf,
                                      FALSE)>>))
    /\ UNCHANGED <<config, locals>>

---------------------------------------------------------------------------
(* The caller *)

\* The return of a call whose running total lives on after it
call_returns_KeepsTotal ==
    /\ pc = "done"
    /\ UNCHANGED outside
    /\ pc' = "idle"
    /\ data' = None
    /\ adapter' = None
    /\ seen' = <<>>
    /\ read_log' = {}
    /\ files' = <<>>
    /\ UNCHANGED total_size
    /\ size_error' = None
    /\ result' = "pending"
    /\ output' = None
    /\ decompressed' = None
    /\ header' = None
    /\ ret' = NoReturn
    /\ UNCHANGED config

\* The call has returned; its locals are gone and the extractor is idle.
call_returns ==
    /\ pc = "done"
    /\ UNCHANGED outside
    /\ pc' = "idle"
    /\ data' = None
    /\ adapter' = None
    /\ seen' = <<>>
    /\ read_log' = {}
    /\ files' = <<>>
    /\ total_size' = 0
    /\ size_error' = None
    /\ result' = "pending"
    /\ output' = None
    /\ decompressed' = None
    /\ header' = None
    /\ ret' = NoReturn
    /\ UNCHANGED config

Next ==
    \/ \E size \in CapVals : with_max_file_size(size)
    \/ \E size \in CapVals : with_max_total_size(size)
    \/ \E filename \in FileNames : with_source_filename(filename)
    \/ \E f \in ArchiveFormat : with_format(f)
    \/ \E d \in DataVals :
          \* container calls are explored on extractors with no source
          \* filename only: the container loops never read
          \* self.source_filename
          /\ (IsSome(format) /\ Unwrap(format) \in ContainerFormats)
                => source_filename = None
          /\ extract(d)
    \/ \E d \in DataVals, f \in ArchiveFormat :
          \* direct calls are explored on extractors with no configured
          \* format only: extract_with_format never reads self.format
          /\ format = None
          /\ f \in ContainerFormats => source_filename = None
          /\ extract_with_format(d, f)
    \/ extract_zip_entry
    \/ extract_zip_end
    \/ process_tar_entry
    \/ process_tar_end
    \/ process_ar_entry
    \/ process_ar_end
    \/ extract_7z_entry
    \/ extract_7z_end
    \/ extract_7z_after
    \/ extract_single_decode
    \/ extract_single_check
    \/ call_returns

Spec == Init /\ [][Next]_vars

---------------------------------------------------------------------------
(* Single-stream extraction over many source filenames *)

\* ArchiveExtractor::new(), with or without with_source_filename(name)
InitSingle ==
    /\ max_file_size = DefaultMaxFileSize
    /\ max_total_size = DefaultMaxTotalSize
    /\ source_filename \in {None} \cup {Some(name) : name \in SourceNames}
    /\ format = None
    /\ pc = "idle"
    /\ NoLocals
    /\ ret = NoReturn
    /\ mime = None
    /\ other = None

NextSingle ==
    \/ \E d \in DataVals, f \in SingleFormats : extract_with_format(d, f)
    \/ extract_single_decode
    \/ extract_single_check
    \/ call_returns

SpecSingle == InitSingle /\ [][NextSingle]_vars

---------------------------------------------------------------------------
(* Format detection by the builder *)

NextFormat ==
    \/ with_format_from_filename
    \/ \E m \in Mimes :
          \* detection by MIME is explored on extractors with no source
          \* filename only: from_mime_str never reads self.source_filename
          source_filename = None /\ with_format_from_mime(m)

SpecFormat == InitSingle /\ [][NextFormat]_vars

---------------------------------------------------------------------------
(* Two calls at a time *)

(* Format detection by the builder, followed by extract *)

\* with_format_from_filename on the extractor, then extract calls on what it
\* returned.  The walk over a container's entries is the matter of Spec;
\* here containers are opened on empty input only.
NextBuilt ==
    \/ with_format_from_filename
    \/ \E d \in DataVals :
          /\ (IsSome(format) /\ Unwrap(format) \in ContainerFormats)
                => d = "empty"
          /\ extract(d)
    \/ extract_zip_entry
    \/ extract_zip_end
    \/ process_tar_entry
    \/ process_tar_end
    \/ process_ar_entry
    \/ process_ar_end
    \/ extract_7z_entry
    \/ extract_7z_end
    \/ extract_7z_after
    \/ extract_single_decode
    \/ extract_single_check
    \/ call_returns

SpecBuilt == InitSingle /\ [][NextBuilt]_vars

---------------------------------------------------------------------------
\* The frame of the running call: its extractor value and its locals.
CurrentFrame ==
    [max_file_size |-> max_file_size,
     max_total_size |-> max_total_size,
     source_filename |-> source_filename,
     format |-> format,
     pc |-> pc,
     data |-> data,
     adapter |-> adapter,
     seen |-> seen,
     read_log |-> read_log,
     files |-> files,
     total_size |-> total_size,
     size_error |-> size_error,
     result |-> result,
     output |-> output,
     decompressed |-> decompressed,
     header |-> header,
     ret |-> ret]

\* A fresh extractor with limits mf and mt, no call on it yet.
NewFrame(mf, mt) ==
    [max_file_size |-> mf, max_total_size |-> mt, source_filename |-> None,
     format |-> None, pc |-> "idle", data |-> None, adapter |-> None,
     seen |-> <<>>, read_log |-> {}, files |-> <<>>, total_size |-> 0,
     size_error |-> None, result |-> "pending", output |-> None,
     decompressed |-> None, header |-> None, ret |-> NoReturn]

\* A context switch with the running total in a cell both calls share
Switch_SharesTotal ==
    /\ IsSome(other)
    /\ other' = Some(CurrentFrame)
    /\ max_file_size' = Unwrap(other).max_file_size
    /\ max_total_size' = Unwrap(other).max_total_size
    /\ source_filename' = Unwrap(other).source_filename
    /\ format' = Unwrap(other).format
    /\ pc' = Unwrap(other).pc
    /\ data' = Unwrap(other).data
    /\ adapter' = Unwrap(other).adapter
    /\ seen' = Unwrap(other).seen
    /\ read_log' = Unwrap(other).read_log
    /\ files' = Unwrap(other).files
    /\ UNCHANGED total_size
    /\ size_error' = Unwrap(other).size_error
    /\ result' = Unwrap(other).result
    /\ output' = Unwrap(other).output
    /\ decompressed' = Unwrap(other).decompressed
    /\ header' = Unwrap(other).header
    /\ ret' = Unwrap(other).ret
    /\ UNCHANGED mime

\* A context switch: the running call is suspended and the other resumes.
\* Each call's state is its own: `&self` and the locals of its functions.
Switch ==
    /\ IsSome(other)
    /\ other' = Some(CurrentFrame)
    /\ max_file_size' = Unwrap(other).max_file_size
    /\ max_total_size' = Unwrap(other).max_total_size
    /\ source_filename' = Unwrap(other).source_filename
    /\ format' = Unwrap(other).format
    /\ pc' = Unwrap(other).pc
    /\ data' = Unwrap(other).data
    /\ adapter' = Unwrap(other).adapter
    /\ seen' = Unwrap(other).seen
    /\ read_log' = Unwrap(other).read_log
    /\ files' = Unwrap(other).files
    /\ total_size' = Unwrap(other).total_size
    /\ size_error' = Unwrap(other).size_error
    /\ result' = Unwrap(other).result
    /\ output' = Unwrap(other).output
    /\ decompressed' = Unwrap(other).decompressed
    /\ header' = Unwrap(other).header
    /\ ret' = Unwrap(other).ret
    /\ UNCHANGED mime

\* The limits of the two extractors.
ConcurrentCaps == {<<2, 2>>, <<1, UsizeMax>>}

\* The entries the two archives are made of.
ConcurrentEntries ==
    {e \in Entries :
        \/ e.is_directory /\ e.size = UsizeMax
        \/ ~e.is_directory /\ e.path = <<"a">> /\ e.size \in {1, 2}}

OnlyConcurrentEntries(entries) ==
    \A i \in 1..Len(entries) : entries[i] \in ConcurrentEntries

\* Two extractors, each with its own limits, no call started.
InitConcurrent ==
    /\ \E caps \in ConcurrentCaps :
          /\ max_file_size = caps[1]
          /\ max_total_size = caps[2]
    /\ source_filename = None
    /\ format = None
    /\ pc = "idle"
    /\ NoLocals
    /\ ret = NoReturn
    /\ mime = None
    /\ other \in {Some(NewFrame(caps[1], caps[2])) : caps \in ConcurrentCaps}

\* The steps of the running call, or a context switch.
NextConcurrent ==
    \/ \E f \in {"Zip", "Tar", "Ar", "SevenZ"} :
          extract_with_format("bytes", f)
    \/ extract_zip_entry /\ OnlyConcurrentEntries(seen')
    \/ extract_zip_end
    \/ process_tar_entry /\ OnlyConcurrentEntries(seen')
    \/ process_tar_end
    \/ process_ar_entry /\ OnlyConcurrentEntries(seen')
    \/ process_ar_end
    \/ extract_7z_entry /\ OnlyConcurrentEntries(seen')
    \/ extract_7z_end
    \/ extract_7z_after
    \/ Switch

SpecConcurrent == InitConcurrent /\ [][NextConcurrent]_vars

---------------------------------------------------------------------------
(* A call runs to its end *)

\* An extractor with small or large limits, no call started.
InitLive ==
    /\ \E caps \in ConcurrentCaps :
          /\ max_file_size = caps[1]
          /\ max_total_size = caps[2]
    /\ source_filename = None
    /\ format = None
    /\ pc = "idle"
    /\ NoLocals
    /\ ret = NoReturn
    /\ mime = None
    /\ other = None

\* The steps of a call once it has been entered, up to its return.
CallStep ==
    \/ extract_zip_entry
    \/ extract_zip_end
    \/ process_tar_entry
    \/ process_tar_end
    \/ process_ar_entry
    \/ process_ar_end
    \/ extract_7z_entry
    \/ extract_7z_end
    \/ extract_7z_after
    \/ extract_single_decode
    \/ extract_single_check

NextLive ==
    \/ \E d \in DataVals, f \in ArchiveFormat : extract_with_format(d, f)
    \/ CallStep
    \/ call_returns

\* The call is sequential code on the caller's thread: while it has a next
\* step it takes one.  Whether the caller calls again is up to the caller.
SpecLive == InitLive /\ [][NextLive]_vars /\ WF_vars(CallStep)

---------------------------------------------------------------------------
(* Vocabulary of the properties *)

(* extract_ar and extract_deb side by side *)

\* The entries the two archives are made of: directories that declare no
\* size or a huge one, and small files.
ArDebEntries ==
    {e \in Entries :
        \/ e.is_directory
        \/ e.path = <<"a">> /\ e.size \in {1, 2} /\ e.content # <<>>}

OnlyArDebEntries(entries) ==
    \A i \in 1..Len(entries) : entries[i] \in ArDebEntries

\* Two extractors with the same limits, no call started.
InitArDeb ==
    /\ \E caps \in ConcurrentCaps :
          /\ max_file_size = caps[1]
          /\ max_total_size = caps[2]
          /\ other = Some(NewFrame(caps[1], caps[2]))
    /\ source_filename = None
    /\ format = None
    /\ pc = "idle"
    /\ NoLocals
    /\ ret = NoReturn
    /\ mime = None

\* An ar or a deb call on either extractor, or a context switch.
NextArDeb ==
    \/ \E f \in {"Ar", "Deb"} : extract_with_format("bytes", f)
    \/ process_ar_entry /\ OnlyArDebEntries(seen')
    \/ process_ar_end
    \/ Switch

SpecArDeb == InitArDeb /\ [][NextArDeb]_vars

---------------------------------------------------------------------------
InContainerCall == IsSome(adapter) /\ Unwrap(adapter) \in ContainerFormats

InSingleCall == IsSome(adapter) /\ Unwrap(adapter) \in SingleFormats

\* ar and deb have no directory concept; the other loops skip directories.
TreatedAsFile(e) == Unwrap(adapter) \in {"Ar", "Deb"} \/ ~e.is_directory

\* The size error the call has raised, if any: recorded by the 7z callback
\* or already returned.
SizeErrorRaised ==
    IF pc = "7z_after"
    THEN size_error
    ELSE IF /\ pc = "done"
            /\ ret.kind = "Err"
            /\ ret.err.type \in {"FileTooLarge", "TotalSizeTooLarge"}
         THEN Some(ret.err)
         ELSE None

LastSeen == seen[Len(seen)]

\* The sum of a sequence of sizes as a usize accumulator holds it.
RECURSIVE WrappedSum(_)
WrappedSum(sizes) ==
    IF sizes = <<>>
    THEN 0
    ELSE LET rest == WrappedSum(SubSeq(sizes, 1, Len(sizes) - 1))
             x == sizes[Len(sizes)]
         IN  IF rest <= UsizeMax - x
             THEN rest + x
             ELSE rest - (UsizeMax - x) - 1

\* The declared sizes of the first n entries that count towards the total:
\* entries treated as files whose size is within max_file_size.
Counts(e) == TreatedAsFile(e) /\ e.size <= max_file_size
CountedSizes(n) ==
    LET counted == SelectSeq(SubSeq(seen, 1, n), Counts)
    IN  [i \in 1..Len(counted) |-> counted[i].size]

---------------------------------------------------------------------------
(* C1 *)

\* C1: an extraction call is all-or-nothing.  A call that does not return
\* Ok hands no ExtractedFile to the caller, whatever had been buffered, and
\* a container call that returns Ok has met no entry over max_file_size.
C1_AllOrNothing ==
    /\ ret.kind # "Ok" => ret.files = <<>>
    /\ (pc = "done" /\ ret.kind = "Ok" /\ InContainerCall) =>
          \A i \in 1..Len(seen) :
             TreatedAsFile(seen[i]) => seen[i].size <= max_file_size

\* An error is returned after an earlier entry had been accepted and buffered.
C1_Witness ==
    /\ pc = "done"
    /\ ret.kind = "Err"
    /\ files # <<>>
    /\ Len(files[1].data) > 0

---------------------------------------------------------------------------
(* C2 *)

\* C2: in a container call, an entry treated as a file whose declared size
\* is strictly greater than max_file_size is the last one visited and the
\* call fails with FileTooLarge{size: its declared size, limit:
\* max_file_size}; FileTooLarge is raised for no other entry, so a size equal
\* to the cap passes and a cap of 0 rejects exactly the non-empty entries.
C2_FileTooLarge ==
    InContainerCall =>
       /\ \A i \in 1..Len(seen) :
             (TreatedAsFile(seen[i]) /\ seen[i].size > max_file_size) =>
                /\ i = Len(seen)
                /\ SizeErrorRaised =
                      Some([type |-> "FileTooLarge", size |-> seen[i].size,
                            limit |-> max_file_size])
       /\ (IsSome(SizeErrorRaised)
           /\ Unwrap(SizeErrorRaised).type = "FileTooLarge") =>
             /\ seen # <<>>
             /\ TreatedAsFile(LastSeen)
             /\ LastSeen.size > max_file_size
             /\ Unwrap(SizeErrorRaised).size = LastSeen.size
             /\ Unwrap(SizeErrorRaised).limit = max_file_size

\* With a cap of 0 an empty file was accepted and a non-empty one rejected.
C2_Witness ==
    /\ pc = "done"
    /\ max_file_size = 0
    /\ ret.kind = "Err"
    /\ ret.err.type = "FileTooLarge"
    /\ Len(seen) = 2
    /\ ~seen[1].is_directory
    /\ seen[1].size = 0
    /\ Len(files) = 1

---------------------------------------------------------------------------
(* C3 *)

\* C3: in a container call the running total is the sum, as the usize
\* accumulator holds it, of the declared sizes of the entries that passed
\* the per-file check; the call has failed with TotalSizeTooLarge{size: the
\* new total, limit: max_total_size} exactly when that total is strictly
\* greater than max_total_size, so a total equal to the cap is accepted.
C3_TotalSizeTooLarge ==
    InContainerCall =>
       /\ ret.kind # "Panic" => total_size = WrappedSum(CountedSizes(Len(seen)))
       /\ total_size > max_total_size <=>
             /\ IsSome(SizeErrorRaised)
             /\ Unwrap(SizeErrorRaised).type = "TotalSizeTooLarge"
       /\ (IsSome(SizeErrorRaised)
           /\ Unwrap(SizeErrorRaised).type = "TotalSizeTooLarge") =>
             /\ Unwrap(SizeErrorRaised).size = total_size
             /\ Unwrap(SizeErrorRaised).limit = max_total_size
             /\ seen # <<>>
             /\ Counts(LastSeen)

\* A total equal to the cap was accepted and the next entry pushed it over.
C3_Witness ==
    /\ pc = "done"
    /\ ret.kind = "Err"
    /\ ret.err.type = "TotalSizeTooLarge"
    /\ Len(seen) = 2
    /\ Len(files) = 1
    /\ seen[1].size = max_total_size
    /\ seen[1].size = 2
    /\ seen[2].size = 1
    /\ ret.err.size = 3

---------------------------------------------------------------------------
(* C4 *)

\* The total length of the contents of the non-directory entries of fs.
RECURSIVE TotalLen(_)
TotalLen(fs) ==
    IF fs = <<>>
    THEN 0
    ELSE (IF Head(fs).is_directory THEN 0 ELSE Len(Head(fs).data))
         + TotalLen(Tail(fs))

\* C4: whatever the format, a call that returns Ok returns non-directory
\* entries whose contents are each at most max_file_size long and together at
\* most max_total_size long.
C4_ReturnedSizesWithinLimits ==
    (pc = "done" /\ ret.kind = "Ok") =>
       /\ \A i \in 1..Len(ret.files) :
             ~ret.files[i].is_directory =>
                Len(ret.files[i].data) <= max_file_size
       /\ TotalLen(ret.files) <= max_total_size

---------------------------------------------------------------------------
(* C5 *)

\* C5: in a container call the content of an entry is read only after the
\* entry has passed the per-file check and the cumulative check, and the
\* entry on which a size error is raised is never read.
C5_ReadAfterChecks ==
    InContainerCall =>
       /\ \A i \in read_log :
             /\ i \in 1..Len(seen)
             /\ TreatedAsFile(seen[i])
             /\ seen[i].size <= max_file_size
             /\ WrappedSum(CountedSizes(i)) <= max_total_size
       /\ IsSome(SizeErrorRaised) => Len(seen) \notin read_log

\* A first entry was read, the second failed a check and was not read.
C5_Witness ==
    /\ pc = "done"
    /\ IsSome(SizeErrorRaised)
    /\ Len(seen) = 2
    /\ read_log = {1}
    /\ seen[2].content # <<>>

---------------------------------------------------------------------------
(* C6 *)

\* C6: limits are checked before allocation, so a buffer whose limit check
\* has not run yet never holds more decoded bytes than that limit allows:
\* not the decoded buffer of a single-stream format before its max_file_size
\* check, nor the decompressed tar stream of tar.xz.
C6_LimitsCheckedBeforeAllocation ==
    /\ pc = "single_check" => Len(Unwrap(decompressed)) <= max_file_size
    /\ IsSome(output) => Len(Unwrap(output)) <= max_total_size

---------------------------------------------------------------------------
(* C7 *)

\* C7: every ExtractedFile built or returned with is_directory = true has
\* empty content.
C7_DirectoriesAreEmpty ==
    \A fs \in {files, ret.files} :
       \A i \in 1..Len(fs) : fs[i].is_directory => fs[i].data = <<>>

\* A directory entry whose reader would yield bytes was returned.
C7_Witness ==
    /\ pc = "done"
    /\ ret.kind = "Ok"
    /\ \E i \in 1..Len(ret.files) :
          /\ ret.files[i].is_directory
          /\ seen[i].content # <<>>

---------------------------------------------------------------------------
(* C8 *)

NoVerdict == [type |-> "none", size |-> 0, limit |-> 0]
PanicVerdict == [type |-> "panic", size |-> 0, limit |-> 0]

\* What the two size checks can make of a sequence of declared sizes walked
\* with running total `total`: no objection, a size error, or an overflow
\* panic.
RECURSIVE SizeVerdicts(_, _)
SizeVerdicts(sizes, total) ==
    IF sizes = <<>>
    THEN {NoVerdict}
    ELSE LET size == Head(sizes)
             After(t) ==
                IF t > max_total_size
                THEN {[type |-> "TotalSizeTooLarge", size |-> t,
                       limit |-> max_total_size]}
                ELSE SizeVerdicts(Tail(sizes), t)
         IN  IF size > max_file_size
             THEN {[type |-> "FileTooLarge", size |-> size,
                    limit |-> max_file_size]}
             ELSE IF total > UsizeMax - size
                  THEN {PanicVerdict}
                       \cup After(total - (UsizeMax - size) - 1)
                  ELSE After(total + size)

\* What the call in progress has made of the entries seen so far.
ActualVerdict ==
    IF ret.kind = "Panic"
    THEN PanicVerdict
    ELSE IF IsSome(SizeErrorRaised) THEN Unwrap(SizeErrorRaised) ELSE NoVerdict

IsNotDirectory(e) == ~e.is_directory

\* The declared sizes of the entries seen, directories left out.
NonDirectorySizes ==
    LET kept == SelectSeq(seen, IsNotDirectory)
    IN  [i \in 1..Len(kept) |-> kept[i].size]

\* C8: in zip, tar-family and 7z calls every directory entry seen has been
\* emitted with empty content, no size error is ever raised on a directory,
\* and the verdict of the size checks is the one the archive with its
\* directory entries removed gets, whatever sizes the directories declare;
\* with both caps 0, directories and zero-length files raise no size error.
C8_DirectoriesBypassLimits ==
    (InContainerCall /\ Unwrap(adapter) \notin {"Ar", "Deb"}) =>
       /\ \A i \in 1..Len(seen) :
             seen[i].is_directory =>
                /\ i <= Len(files)
                /\ files[i].is_directory
                /\ files[i].data = <<>>
       /\ IsSome(SizeErrorRaised) => ~LastSeen.is_directory
       /\ ActualVerdict \in SizeVerdicts(NonDirectorySizes, 0)
       /\ (/\ max_file_size = 0
           /\ max_total_size = 0
           /\ \A i \in 1..Len(seen) :
                 seen[i].is_directory \/ seen[i].size = 0)
          => ActualVerdict = NoVerdict

\* With both caps 0 a call succeeds on a directory that declares a huge size
\* followed by a zero-length file.
C8_Witness ==
    /\ pc = "done"
    /\ ret.kind = "Ok"
    /\ max_file_size = 0
    /\ max_total_size = 0
    /\ Len(seen) = 2
    /\ seen[1].is_directory
    /\ seen[1].size = UsizeMax
    /\ ~seen[2].is_directory

---------------------------------------------------------------------------
(* C9 *)

\* The ExtractedFile the loop of the call in progress builds for entry e.
Emitted(e) ==
    [path |-> IF Unwrap(adapter) \in {"Zip", "SevenZ"}
              THEN e.path
              ELSE to_string_lossy(e.path),
     data |-> IF TreatedAsFile(e) THEN e.content ELSE <<>>,
     is_directory |-> ~TreatedAsFile(e)]

\* C9: in a container call the list built is, element by element and in
\* order, the entries the cursor has yielded (all of them, or all but the
\* one the call stopped on), and a call that returns Ok returns that list
\* with one element per entry; nothing is sorted, merged or dropped.
C9_NativeOrder ==
    InContainerCall =>
       /\ Len(files) <= Len(seen)
       /\ Len(seen) <= Len(files) + 1
       /\ \A i \in 1..Len(files) : files[i] = Emitted(seen[i])
       /\ (pc = "done" /\ ret.kind = "Ok") =>
             /\ ret.files = files
             /\ Len(ret.files) = Len(seen)

\* Two entries storing the same path with different content are both
\* returned, in order.
C9_Witness ==
    /\ pc = "done"
    /\ ret.kind = "Ok"
    /\ Len(ret.files) = 2
    /\ ret.files[1].path = ret.files[2].path
    /\ ~ret.files[1].is_directory
    /\ ret.files[1].data = <<7>>
    /\ ret.files[2].data = <<7, 8>>

---------------------------------------------------------------------------
(* C10 *)

\* C10: every extract step on an extractor with no configured format, for
\* every input, ends the call at once with Err(UnknownFormat): no codec
\* adapter is opened on the data (all reads of the data go through an
\* adapter), no entry is visited and nothing is decoded.
C10_NoFormatIsUnknownFormat ==
    [][(format = None /\ \E d \in DataVals : extract(d)) =>
          /\ pc' = "done"
          /\ ret' = [kind |-> "Err", files |-> <<>>,
                     err |-> [type |-> "UnknownFormat", size |-> 0,
                              limit |-> 0]]
          /\ adapter' = None
          /\ seen' = <<>>
          /\ read_log' = {}
          /\ output' = None
          /\ decompressed' = None]_vars

\* extract on empty input with no format configured has returned.
C10_Witness ==
    /\ pc = "done"
    /\ format = None
    /\ adapter = None
    /\ data = Some("empty")
    /\ ret.kind = "Err"
    /\ ret.err.type = "UnknownFormat"

---------------------------------------------------------------------------
(* C11 *)

---------------------------------------------------------------------------
(* C12 *)

\* The suffix the claim gives for each single-stream format.
SuffixOf(f) ==
    CASE f = "Gz" -> <<".", "g", "z">>
      [] f = "Bz2" -> <<".", "b", "z", "2">>
      [] f = "Xz" -> <<".", "x", "z">>
      [] f = "Lz4" -> <<".", "l", "z", "4">>
      [] f = "Zst" -> <<".", "z", "s", "t">>

\* The lengths k >= 1 of a non-empty front of name whose removal leaves
\* a rest that is, in lower case, the suffix of f.
StemLengths(name, f) ==
    {k \in 1..Len(name) :
        to_lowercase(SubSeq(name, k + 1, Len(name))) = SuffixOf(f)}

\* The path the generic rule gives for format f.
RulePath(f) ==
    IF IsSome(source_filename)
       /\ StemLengths(Unwrap(source_filename), f) # {}
    THEN LET name == Unwrap(source_filename)
         IN  SubSeq(name, 1, CHOOSE k \in StemLengths(name, f) : TRUE)
    ELSE Str_data

---------------------------------------------------------------------------
(* C13 *)

---------------------------------------------------------------------------
(* C14 *)

\* C14: the entry a bz2, xz, lz4 or zst call returns always has the path
\* "data".
C14_AlwaysData ==
    (/\ pc = "done"
     /\ ret.kind = "Ok"
     /\ Unwrap(adapter) \in {"Bz2", "Xz", "Lz4", "Zst"})
    => ret.files[1].path = Str_data

---------------------------------------------------------------------------
(* C15 *)

DoubleTags ==
    {<<<<"t", "a", "r", ".", "g", "z">>, "TarGz">>,
     <<<<"t", "a", "r", ".", "b", "z", "2">>, "TarBz2">>,
     <<<<"t", "a", "r", ".", "x", "z">>, "TarXz">>,
     <<<<"t", "a", "r", ".", "z", "s", "t">>, "TarZst">>,
     <<<<"t", "a", "r", ".", "l", "z", "4">>, "TarLz4">>}

SingleTags ==
    {<<<<"z", "i", "p">>, "Zip">>, <<<<"t", "a", "r">>, "Tar">>,
     <<<<"a", "r">>, "Ar">>, <<<<"d", "e", "b">>, "Deb">>,
     <<<<"g", "z">>, "Gz">>, <<<<"b", "z", "2">>, "Bz2">>,
     <<<<"x", "z">>, "Xz">>, <<<<"l", "z", "4">>, "Lz4">>,
     <<<<"z", "s", "t">>, "Zst">>, <<<<"7", "z">>, "SevenZ">>,
     <<<<"t", "g", "z">>, "TarGz">>, <<<<"t", "b", "z", "2">>, "TarBz2">>,
     <<<<"t", "x", "z">>, "TarXz">>}

\* name ends, whatever the case, in a dot followed by extension ext.
HasExtension(name, ext) ==
    /\ Len(name) > Len(ext)
    /\ to_lowercase(SubSeq(name, Len(name) - Len(ext), Len(name)))
          = <<".">> \o ext

\* The tags the claim allows for name: the combined tag of a double suffix
\* it ends in, else the tag of its last extension.
TagsByExtension(name) ==
    IF \E row \in DoubleTags : HasExtension(name, row[1])
    THEN {row[2] : row \in {r \in DoubleTags : HasExtension(name, r[1])}}
    ELSE {row[2] : row \in {r \in SingleTags : HasExtension(name, r[1])}}

\* C15: for every source filename that ends in a dot and a recognized
\* extension, in any case, from_filename gives the combined tag when the
\* name ends in a double suffix and otherwise the tag of the last
\* extension; upper and lower case of the name give the same answer; and
\* that tag is what with_format_from_filename configures.
C15_FromFilenameByExtension ==
    IsSome(source_filename) =>
       LET name == Unwrap(source_filename) IN
       /\ from_filename(Upper(name)) = from_filename(to_lowercase(name))
       /\ from_filename(name) = from_filename(to_lowercase(name))
       /\ TagsByExtension(name) # {} =>
             /\ from_filename(name).kind = "Ok"
             /\ TagsByExtension(name) = {from_filename(name).format}
             /\ (mime = None /\ pc = "idle" /\ IsSome(format)) =>
                   TagsByExtension(name) = {Unwrap(format)}
             /\ pc # "dropped"

\* with_format_from_filename has configured TarGz from "R.TAR.GZ".
C15_Witness ==
    /\ source_filename = Some(<<"R", ".", "T", "A", "R", ".", "G", "Z">>)
    /\ format = Some("TarGz")
    /\ pc = "idle"

---------------------------------------------------------------------------
(* C16 *)

\* C16: when the source filename does not end in a dot followed by a
\* recognized extension (in particular when it has no dot),
\* with_format_from_filename never configures a format: the from_filename
\* it calls returns UnknownFormat.
C16_FromFilenameFailsClosed ==
    (IsSome(source_filename) /\ TagsByExtension(Unwrap(source_filename)) = {})
    => /\ format = None
       /\ pc = "dropped" => ret = Err(UnknownFormat)

---------------------------------------------------------------------------
(* C17 *)

\* The canonical strings and aliases the claim names, with their tag.
Aliases ==
    {<<App \o <<"g", "z", "i", "p">>, "Gz">>,
     <<App \o <<"x", "-", "g", "z", "i", "p">>, "Gz">>,
     <<App \o <<"x", "-", "b", "z", "i", "p", "2">>, "Bz2">>,
     <<App \o <<"x", "-", "b", "z", "i", "p">>, "Bz2">>,
     <<App \o <<"z", "s", "t", "d">>, "Zst">>,
     <<App \o <<"x", "-", "z", "s", "t", "d">>, "Zst">>}

\* C17: with_format_from_mime succeeds exactly when the whole string, in
\* lower case, is a string of the table; a canonical string and its alias,
\* in any case, configure the same tag; and the tag is never one of the
\* tar+compression tags.
C17_FromMimeTable ==
    IsSome(mime) =>
       LET lower == to_ascii_lowercase(Unwrap(mime)) IN
       /\ pc = "idle" <=> lower \in {row[1] : row \in MimeTable}
       /\ pc = "idle" =>
             /\ IsSome(format)
             /\ Unwrap(format) \notin
                   {"TarGz", "TarBz2", "TarXz", "TarZst", "TarLz4"}
       /\ \A row \in Aliases : lower = row[1] => format = Some(row[2])

\* The alias of gzip, passed in upper case, has configured Gz.
C17_Witness ==
    /\ mime = Some(Upper(App \o <<"x", "-", "g", "z", "i", "p">>))
    /\ format = Some("Gz")
    /\ pc = "idle"

---------------------------------------------------------------------------
(* C18 *)

\* C18: when the MIME string is not in the table, with_format_from_mime
\* fails with UnsupportedFormat whose detail is the string passed in.
C18_UnsupportedCarriesInput ==
    (IsSome(mime) /\ pc = "dropped") =>
       /\ ret.kind = "Err"
       /\ ret.err.type = "UnsupportedFormat"
       /\ ret.err.detail = Unwrap(mime)

---------------------------------------------------------------------------
(* C19 *)

\* The declared sizes of the entries seen that the loop treats as files.
TreatedSizes ==
    LET kept == SelectSeq(seen, TreatedAsFile)
    IN  [i \in 1..Len(kept) |-> kept[i].size]

Returned(kind, fs, e) == [kind |-> kind, files |-> fs, err |-> e]

\* The result of the finished call is one that the limits, the source
\* filename, the format and what the adapter made of the bytes (entries,
\* payload, header) determine; what is left open is whether and where the
\* adapter failed and what an overflowing addition does.
ResultDetermined ==
    IF InSingleCall
    THEN IF decompressed = None
         THEN \E t \in {"Io", "InvalidArchive"} :
                 ret = Returned("Err", <<>>, PlainError(t))
         ELSE LET buf == Unwrap(decompressed)
                  path == IF adapter = Some("Gz") /\ IsSome(header)
                             /\ Unwrap(header).utf8
                          THEN Unwrap(header).name
                          ELSE RulePath(Unwrap(adapter))
              IN  IF Len(buf) > max_file_size
                  THEN ret = Returned("Err", <<>>,
                                [type |-> "FileTooLarge", size |-> Len(buf),
                                 limit |-> max_file_size])
                  ELSE ret = Returned("Ok",
                                <<[path |-> path, data |-> buf,
                                   is_directory |-> FALSE]>>,
                                PlainError("none"))
    ELSE LET verdicts == SizeVerdicts(TreatedSizes, 0) IN
         CASE ret.kind = "Ok" ->
                 /\ NoVerdict \in verdicts
                 /\ ret = Returned("Ok",
                             [i \in 1..Len(seen) |-> Emitted(seen[i])],
                             PlainError("none"))
           [] ret.kind = "Panic" ->
                 /\ PanicVerdict \in verdicts
                 /\ ret = Returned("Panic", <<>>, PlainError("none"))
           [] ret.kind = "Err" ->
                 /\ ret.files = <<>>
                 /\ IF ret.err.type \in {"Io", "Zip", "InvalidArchive"}
                    THEN /\ NoVerdict \in verdicts
                         /\ ret.err = PlainError(ret.err.type)
                    ELSE /\ ret.err \in verdicts
                         /\ ret.err \notin {NoVerdict, PanicVerdict}
           [] OTHER -> FALSE

\* C19: no step of a call (its start, its steps, its return) changes the
\* extractor's configuration; whenever the extractor is idle again, after
\* a success or a failure, nothing of the call is left (the running total
\* is 0, the list empty), so every call starts from the same state; and
\* the result of a finished call is one that its own inputs determine.
C19_NoStateAcrossCalls ==
    [][/\ (pc # "idle" \/ pc' # "idle") => config' = config
       /\ pc' = "idle" =>
             /\ total_size' = 0
             /\ files' = <<>>
             /\ seen' = <<>>
             /\ size_error' = None
             /\ decompressed' = None
             /\ output' = None
             /\ ret' = [kind |-> "none", files |-> <<>>,
                        err |-> [type |-> "none", size |-> 0, limit |-> 0]]
       /\ (pc # "done" /\ pc' = "done" /\ IsSome(adapter')) =>
             ResultDetermined']_vars

\* A call that has accumulated a total and failed is about to return.
C19_Witness ==
    /\ pc = "done"
    /\ ret.kind = "Err"
    /\ ret.err.type = "TotalSizeTooLarge"
    /\ total_size > 0
    /\ Len(seen) = 2

---------------------------------------------------------------------------
(* C20 *)

\* C20: with two calls in progress, under every interleaving, a step of
\* one call leaves the other call's frame as it was (a step either does
\* not touch the suspended frame or is a context switch that exchanges
\* the two frames whole), and the running call's list, running total and
\* result are those its own archive and limits give: the list is the
\* entries it has seen itself, the total the sum of its own counted
\* sizes, the result one it can return when run alone.
C20_ConcurrentCallsIndependent ==
    [][/\ \/ other' = other
          \/ /\ other' = Some(CurrentFrame)
             /\ CurrentFrame' = Unwrap(other)
       /\ InContainerCall' =>
             /\ Len(files') <= Len(seen')
             /\ \A i \in 1..Len(files') : files'[i] = Emitted(seen[i])'
             /\ ret'.kind # "Panic" =>
                   total_size' = WrappedSum(CountedSizes(Len(seen)))'
             /\ pc' = "done" => ResultDetermined']_vars

\* Both calls are in the middle of their loops, each with its own total.
C20_Witness ==
    /\ IsSome(other)
    /\ pc \in {"zip", "tar", "ar", "7z"}
    /\ Unwrap(other).pc \in {"zip", "tar", "ar", "7z"}
    /\ max_total_size # Unwrap(other).max_total_size
    /\ total_size = 1
    /\ Unwrap(other).total_size = 2

---------------------------------------------------------------------------
(* C21 *)

\* The fields of config that a step changes.
ChangedFields ==
    {i \in 1..4 : config'[i] # config[i]}

\* C21: a new extractor has max_file_size = 100 MiB, max_total_size = 1 GiB,
\* no source filename and no format; every step of with_max_file_size,
\* with_max_total_size, with_source_filename and with_format leaves its own
\* field holding the value given and the other three fields, and everything
\* else, as they were, so setters of different fields commute and of two
\* calls of one setter the last one decides.
C21_BuilderSetters ==
    /\ config = <<104857600, 1073741824, <<>>, <<>>>>
    /\ [][(pc = "idle" /\ pc' = "idle") =>
            /\ \A size \in CapVals :
                  /\ with_max_file_size(size) =>
                        max_file_size' = size /\ ChangedFields \subseteq {1}
                  /\ with_max_total_size(size) =>
                        max_total_size' = size /\ ChangedFields \subseteq {2}
            /\ \A filename \in FileNames :
                  with_source_filename(filename) =>
                     /\ source_filename' = <<filename>>
                     /\ ChangedFields \subseteq {3}
            /\ \A f \in ArchiveFormat :
                  with_format(f) =>
                     format' = <<f>> /\ ChangedFields \subseteq {4}
            /\ Cardinality(ChangedFields) <= 1
            /\ UNCHANGED <<locals, ret>>]_vars

\* All four setters have been applied, max_file_size twice, and the fields
\* hold the last values given.
C21_Witness ==
    /\ pc = "idle"
    /\ max_file_size = 0
    /\ max_total_size = 2
    /\ source_filename = Some(<<"r", ".", "G", "Z">>)
    /\ format = Some("Bz2")

---------------------------------------------------------------------------
(* C22 *)

\* C22: with_format_from_filename returns UnknownFormat when no source
\* filename is set or the source filename does not end in a dot and a
\* recognized extension; otherwise it configures from_filename(source
\* filename) and changes nothing else.  A following extract opens the
\* adapter of that format, and a single-stream call returns the source
\* filename without that format's suffix as the path (for gzip, unless the
\* header names the file).
C22_FormatFromFilename ==
    /\ [][with_format_from_filename =>
            IF source_filename = <<>>
               \/ TagsByExtension(source_filename[1]) = {}
            THEN /\ pc' = "dropped"
                 /\ ret' = [kind |-> "Err", files |-> <<>>,
                            err |-> [type |-> "UnknownFormat", size |-> 0,
                                     limit |-> 0]]
                 /\ format' = format
            ELSE /\ format' = <<from_filename(source_filename[1]).format>>
                 /\ pc' = "idle"
                 /\ UNCHANGED <<max_file_size, max_total_size,
                                source_filename, locals, ret>>]_vars
    /\ [][(pc = "idle" /\ adapter' # <<>>) => adapter' = format]_vars
    /\ [][(/\ pc' = "done"
           /\ ret'.kind = "Ok"
           /\ adapter' # <<>>
           /\ adapter'[1] \in SingleFormats
           /\ ~(adapter' = <<"Gz">> /\ header' # <<>> /\ header'[1].utf8))
          => LET name == source_filename[1]
                 suffix == SuffixOf(format[1])
             IN  /\ ends_with(to_lowercase(name), suffix)
                 /\ ret'.files[1].path =
                       IF Len(name) > Len(suffix)
                       THEN SubSeq(name, 1, Len(name) - Len(suffix))
                       ELSE <<"d", "a", "t", "a">>]_vars

---------------------------------------------------------------------------
(* C23 *)

\* C23: a container call that fails on the archive itself (the adapter
\* could not open it, its cursor or an entry's reader failed), and not on
\* a size limit, fails with InvalidArchive, whatever the container format.
C23_MalformedIsInvalidArchive ==
    (/\ pc = "done"
     /\ InContainerCall
     /\ ret.kind = "Err"
     /\ ret.err.type \notin {"FileTooLarge", "TotalSizeTooLarge"})
    => ret.err.type = "InvalidArchive"

---------------------------------------------------------------------------
(* C24 *)

\* The declared sizes of the first n entries seen, directories included.
AllSizes(n) == [i \in 1..n |-> seen[i].size]

\* C24: in an ar or deb call every entry the loop has accepted, whatever
\* its directory flag, has passed the per-file check and the cumulative
\* check over all entries before it and is emitted as a file with the
\* content read; the verdict of the checks is the one all declared sizes
\* get; and an ar call and a deb call that met the same entries under the
\* same limits, and the same reader failure or none, returned the same
\* result.
C24_ArDebEveryEntryIsFile ==
    (IsSome(adapter) /\ Unwrap(adapter) \in {"Ar", "Deb"}) =>
       /\ \A i \in 1..Len(files) :
             /\ files[i] = [path |-> to_string_lossy(seen[i].path),
                            data |-> seen[i].content,
                            is_directory |-> FALSE]
             /\ seen[i].size <= max_file_size
             /\ WrappedSum(AllSizes(i)) <= max_total_size
             /\ i \in read_log
       /\ pc = "done" => ActualVerdict \in SizeVerdicts(AllSizes(Len(seen)), 0)
       /\ (/\ IsSome(other)
           /\ pc = "done"
           /\ Unwrap(other).pc = "done"
           /\ Unwrap(other).adapter \in {Some("Ar"), Some("Deb")}
           /\ Unwrap(other).seen = seen
           /\ Unwrap(other).max_file_size = max_file_size
           /\ Unwrap(other).max_total_size = max_total_size
           /\ (Unwrap(other).ret.err.type = "Io") = (ret.err.type = "Io"))
          => Unwrap(other).ret = ret

\* An ar call and a deb call have both returned the same two entries, the
\* first of them flagged as a directory, as files.
C24_Witness ==
    /\ pc = "done"
    /\ adapter = Some("Deb")
    /\ IsSome(other)
    /\ Unwrap(other).pc = "done"
    /\ Unwrap(other).adapter = Some("Ar")
    /\ Unwrap(other).seen = seen
    /\ Len(seen) = 2
    /\ seen[1].is_directory
    /\ ret.kind = "Ok"
    /\ Len(ret.files) = 2
    /\ ~ret.files[1].is_directory
    /\ Unwrap(other).ret = ret

---------------------------------------------------------------------------
(* C25 *)

\* The walk of the call in progress is over: the call has returned, or
\* for_each_entries has.
WalkStopped == pc \in {"done", "7z_after"}

\* Entry i of the entries seen breaches no limit.
PassesChecks(i) ==
    TreatedAsFile(seen[i]) =>
       /\ seen[i].size <= max_file_size
       /\ WrappedSum(CountedSizes(i)) <= max_total_size

\* C25: in a container call a size error is raised on the first entry, in
\* enumeration order, that breaches a limit, and it stops the walk: that
\* entry is the last one seen and is neither read nor emitted, every entry
\* before it passed and was emitted, and from then on no entry is seen,
\* read or emitted.  In 7z the error waits in size_error while
\* for_each_entries returns, and the call then returns it whatever
\* for_each_entries returned.
C25_FirstFailureStopsTheWalk ==
    [][/\ (WalkStopped /\ pc' # "idle") =>
             /\ WalkStopped'
             /\ UNCHANGED <<seen, read_log, files, total_size, size_error>>
       /\ (InContainerCall /\ IsSome(SizeErrorRaised))' =>
             /\ WalkStopped'
             /\ Len(files') = Len(seen') - 1
             /\ read_log' \subseteq 1..Len(files')
             /\ \A i \in 1..Len(files') : PassesChecks(i)'
             /\ ~PassesChecks(Len(seen))'
       /\ (pc = "7z_after" /\ IsSome(size_error)) =>
             /\ pc' = "done"
             /\ ret' = [kind |-> "Err", files |-> <<>>,
                        err |-> Unwrap(size_error)]
       /\ (pc' = "7z_after" /\ pc # "7z_after" /\ IsSome(size_error')) =>
             Len(seen') \notin read_log']_vars

\* A 7z call whose second entry breached a limit has returned the size
\* error although for_each_entries had returned an error of its own.
C25_Witness ==
    /\ pc = "done"
    /\ adapter = Some("SevenZ")
    /\ result = "Err"
    /\ IsSome(size_error)
    /\ ret = Err(Unwrap(size_error))
    /\ Len(seen) = 2
    /\ read_log = {1}
    /\ seen[2].content # <<>>

---------------------------------------------------------------------------
(* C26 *)

\* C26: in every step of a container loop that takes up an entry treated
\* as a file, a declared size over max_file_size raises FileTooLarge with
\* that size and leaves the running total as it was, also when the total
\* with that size added would be over max_total_size; TotalSizeTooLarge is
\* raised only on an entry whose own size is within max_file_size.
C26_PerFileCheckFirst ==
    [][(InContainerCall /\ Len(seen') = Len(seen) + 1
        /\ TreatedAsFile(LastSeen'))
       => LET e == LastSeen' IN
          /\ e.size > max_file_size =>
                /\ SizeErrorRaised' =
                      <<[type |-> "FileTooLarge", size |-> e.size,
                         limit |-> max_file_size]>>
                /\ total_size' = total_size
          /\ (SizeErrorRaised' # <<>>
              /\ SizeErrorRaised'[1].type = "TotalSizeTooLarge")
             => /\ e.size <= max_file_size
                /\ total_size' = SizeErrorRaised'[1].size]_vars

\* After an accepted entry, an entry over both limits was rejected with
\* FileTooLarge and the total is still that of the first.
C26_Witness ==
    /\ pc = "done"
    /\ InContainerCall
    /\ ret.kind = "Err"
    /\ ret.err.type = "FileTooLarge"
    /\ Len(seen) = 2
    /\ Len(files) = 1
    /\ total_size = seen[1].size
    /\ total_size > 0
    /\ total_size + 1 > max_total_size
    /\ seen[2].size > max_file_size

---------------------------------------------------------------------------
(* C27 *)

\* C27: in a container call the running total starts at 0, never goes
\* down, and grows by exactly the declared size of each file entry the
\* loop accepts, also when the sizes and the caps are close to usize::MAX.
C27_TotalIsExactSum ==
    [][/\ (pc = "idle" /\ pc' # "idle") => total_size' = 0
       /\ (InContainerCall /\ pc' # "idle") =>
             /\ total_size' >= total_size
             /\ Len(files') = Len(files) + 1 =>
                   total_size' - total_size =
                      IF TreatedAsFile(LastSeen') THEN LastSeen'.size ELSE 0]_vars

---------------------------------------------------------------------------
(* C28 *)

\* C28: in a container call the limits see declared sizes only.  The
\* verdict of the checks is the one the declared sizes of the entries get,
\* the running total is made of declared sizes, and every entry whose
\* declared size passed is emitted with all the bytes its reader yielded,
\* however many: the length of what was read enters no check and no sum.
C28_DeclaredSizeOnly ==
    InContainerCall =>
       /\ WalkStopped => ActualVerdict \in SizeVerdicts(TreatedSizes, 0)
       /\ ret.kind # "Panic" =>
             total_size = WrappedSum(CountedSizes(Len(seen)))
       /\ \A i \in 1..Len(seen) :
             (TreatedAsFile(seen[i]) /\ i \in read_log /\ ret.err.type # "Io"
              /\ result # "Err")
             => /\ i <= Len(files)
                /\ files[i].data = seen[i].content
       /\ \A i \in 1..Len(files) :
             TreatedAsFile(seen[i]) => i \in read_log

\* With both caps 0 a call has returned an entry declared empty with the
\* three bytes its reader yielded.
C28_Witness ==
    /\ pc = "done"
    /\ InContainerCall
    /\ ret.kind = "Ok"
    /\ max_file_size = 0
    /\ max_total_size = 0
    /\ total_size = 0
    /\ Len(ret.files) = 1
    /\ seen[1].size = 0
    /\ Len(ret.files[1].data) = 3

---------------------------------------------------------------------------
(* C29 *)

\* The adapter of the call in frame fr failed by itself (open, cursor or
\* read failure), which is no matter of the limits.
AdapterFailed(fr) ==
    \/ fr.ret.err.type \in {"Io", "Zip", "InvalidArchive"}
    \/ fr.result = "Err" /\ fr.size_error = None

\* The loop of the call in frame fr can be compared on its entries: zip,
\* tar and 7z always, ar when no entry is a directory.
Comparable(fr) ==
    \/ fr.adapter \in {Some("Zip"), Some("Tar"), Some("SevenZ")}
    \/ /\ fr.adapter = Some("Ar")
       /\ \A i \in 1..Len(fr.seen) : ~fr.seen[i].is_directory

\* The size error raised in frame fr (stored by the 7z callback or
\* returned), if any.
SizeErrorOf(fr) ==
    IF IsSome(fr.size_error)
    THEN fr.size_error
    ELSE IF fr.ret.err.type \in {"FileTooLarge", "TotalSizeTooLarge"}
         THEN Some(fr.ret.err)
         ELSE None

\* C29: two container calls, each by the zip loop, the tar loop, the 7z
\* callback or (on entries without directories) the ar loop, that have met
\* the same entries under the same limits and whose adapters did not fail,
\* have built the same list, hold the same running total, have raised the
\* same size error with the same payload or none, and, once both have
\* returned, have returned the same result.
C29_LoopsAgree ==
    (/\ IsSome(other)
     /\ IsSome(adapter)
     /\ IsSome(Unwrap(other).adapter)
     /\ Unwrap(other).seen = seen
     /\ Unwrap(other).max_file_size = max_file_size
     /\ Unwrap(other).max_total_size = max_total_size
     /\ Comparable(CurrentFrame)
     /\ Comparable(Unwrap(other))
     /\ ~AdapterFailed(CurrentFrame)
     /\ ~AdapterFailed(Unwrap(other)))
    => /\ Unwrap(other).files = files
       /\ Unwrap(other).total_size = total_size
       /\ SizeErrorOf(Unwrap(other)) = SizeErrorOf(CurrentFrame)
       /\ (pc = "done" /\ Unwrap(other).pc = "done") => Unwrap(other).ret = ret

\* A 7z call and a tar call have both met a directory and then a file
\* over max_file_size, and both have returned the same FileTooLarge.
C29_Witness ==
    /\ pc = "done"
    /\ adapter = Some("SevenZ")
    /\ IsSome(other)
    /\ Unwrap(other).pc = "done"
    /\ Unwrap(other).adapter = Some("Tar")
    /\ Unwrap(other).seen = seen
    /\ Len(seen) = 2
    /\ seen[1].is_directory
    /\ Len(files) = 1
    /\ ret.kind = "Err"
    /\ ret.err.type = "FileTooLarge"
    /\ Unwrap(other).ret = ret

---------------------------------------------------------------------------
(* C30 *)

\* The call in progress has not returned yet.
Running == pc \notin {"idle", "done", "dropped"}

\* C30: every extraction call over a finite archive terminates.  Each step
\* of a running call either takes up exactly one new entry, behind the ones
\* already seen, or leaves the entries seen as they are and moves on (out of
\* the loop or to the return); no entry is read twice, nothing seen is
\* dropped to be visited again; a running call always has a next step; and
\* every call that has started returns.
C30_CallTerminates ==
    /\ [][Running =>
            /\ \/ /\ Len(seen') = Len(seen) + 1
                  /\ SubSeq(seen', 1, Len(seen)) = seen
               \/ /\ seen' = seen
                  /\ pc' # pc
            /\ read_log \subseteq read_log'
            /\ read_log' \ read_log \subseteq {Len(seen')}
            /\ SubSeq(files', 1, Len(files)) = files]_vars
    /\ [](Running => ENABLED CallStep)
    /\ (Running ~> pc = "done")

\* A zip call has visited as many entries as the archive may hold and has
\* returned them.
C30_Witness ==
    /\ pc = "done"
    /\ adapter = Some("Zip")
    /\ ret.kind = "Ok"
    /\ Len(seen) = MaxEntries
    /\ Len(ret.files) = MaxEntries

====
